---- MODULE Spec2Model ----
(***************************************************************************)
(* A model of darmstadt.jump_host: the JumpHost endpoint with its lazily   *)
(* cached connection and docker client, the failover loop                  *)
(* try_function_on_any, and the selection policy choose_from.              *)
(*                                                                         *)
(* Python objects are modelled by identity: a candidate JumpHost is a      *)
(* number of Hosts, a connection handle is a record [host, n] that differs *)
(* from every handle of that host still referenced, an exception is a      *)
(* record [type, cause, host, n] raised on that host by the n-th factory   *)
(* invocation of the running top-level call.  A str is the sequence of its *)
(* characters.                                                             *)
(***************************************************************************)
EXTENDS Integers, Sequences, FiniteSets, TLC

\* ------------------------------------------------------------------ bounds
NumHosts == 2
MaxLen == 3

Hosts == 1..NumHosts

\* Python's None, as a reference to a JumpHost (the candidates are 1..NumHosts)
None == 0

\* ------------------------------------------------------- exception kinds
\* The exceptions connection_func / open() raise that connect() names in an
\* except clause, and one it does not name (tests: ZeroDivisionError).
Classified == {"gaierror", "socket.timeout", "AuthenticationException"}
Unclassified == {"ZeroDivisionError"}
Faults == Classified \cup Unclassified
\* The same for docker_client_func and docker_client().
ClientClassified == {"gaierror", "TimeoutError", "AuthenticationException"}
ClientFaults == ClientClassified \cup Unclassified
Stages == {"factory", "open"}

\* --------------------------------------------------------------- strings
DigitChars == <<"0", "1", "2", "3", "4", "5", "6", "7", "8", "9">>

IsDigit(c) == \E d \in 1..Len(DigitChars) : DigitChars[d] = c

DigitValue(c) == (CHOOSE d \in 1..Len(DigitChars) : DigitChars[d] = c) - 1

\* str.isnumeric(): non-empty and every character numeric
isnumeric(s) == Len(s) > 0 /\ \A j \in 1..Len(s) : IsDigit(s[j])

\* int(str) of a digits-only string: base-10 value, leading zeros allowed
RECURSIVE int(_)
int(s) ==
  IF Len(s) = 0 THEN 0
  ELSE 10 * int(SubSeq(s, 1, Len(s) - 1)) + DigitValue(s[Len(s)])

\* The override values a caller passes to choose_from.
OverrideInts == (0 - (MaxLen + 1))..(MaxLen + 1)

\* str overrides: the numerals of 0..MaxLen+1, the same with a leading zero,
\* a two-digit numeral, and strings that are not digits-only.
OverrideStrings ==
  {<<DigitChars[d]>> : d \in 1..(MaxLen + 2)}
    \cup {<<"0", DigitChars[d]>> : d \in 1..(MaxLen + 2)}
    \cup {<<"1", "0">>, <<>>, <<"-", "1">>, <<"m", "y", "-", "h", "o", "s", "t">>}

\* override=None, an int, or a str
NoOverride == [t |-> "None", n |-> 0, s |-> <<>>]
IntOverride(k) == [t |-> "int", n |-> k, s |-> <<>>]
StrOverride(s) == [t |-> "str", n |-> 0, s |-> s]

Overrides ==
  {NoOverride} \cup {IntOverride(k) : k \in OverrideInts}
    \cup {StrOverride(s) : s \in OverrideStrings}

\* The candidate sequences a caller passes (*jump_hosts / *default_hosts);
\* the same JumpHost object may be passed more than once.
RECURSIVE SeqsUpTo(_)
SeqsUpTo(n) ==
  IF n = 0 THEN {<<>>}
  ELSE LET shorter == SeqsUpTo(n - 1)
       IN  shorter \cup {Append(s, h) : s \in {t \in shorter : Len(t) = n - 1}, h \in Hosts}

CandidateSeqs == SeqsUpTo(MaxLen)

\* The list without its element at position j.
Without(s, j) == SubSeq(s, 1, j - 1) \o SubSeq(s, j + 1, Len(s))

\* The orders random.shuffle can leave a list in: every permutation.
RECURSIVE Shuffles(_)
Shuffles(s) ==
  IF Len(s) = 0 THEN {<<>>}
  ELSE UNION {{<<s[j]>> \o t : t \in Shuffles(Without(s, j))} : j \in 1..Len(s)}

\* ------------------------------------------------------------------ state
VARIABLES
  connection_func,     \* per host: "GOOD" (factory and open() succeed) or "BAD"
  cached_connection,   \* per host: None or the cached handle
  cached_docker_client,  \* per host: None or the cached docker client
  factoryCalls,        \* connection_func invocations in the running call
  openCalls,           \* open() invocations in the running call
  clientCalls,         \* docker_client_func invocations in the running call
  injected,            \* what the last factory / open() invocation raised
  pc,                  \* "idle" | "loop" | "after" | "done"
  call,                \* the running / last top-level call and its arguments
  jump_hosts,          \* try_function_on_any: the sequence being iterated
  i,                   \* try_function_on_any: position of the next candidate
  last_exception,      \* try_function_on_any local
  successful_host,     \* try_function_on_any local
  result,              \* try_function_on_any local
  invoked,             \* positions on which func has been invoked, in order
  outcome              \* what the last finished top-level call returned or raised

\* run_in_parallel (parallel.py): one call at a time, its event loop, its
\* ThreadPoolExecutor and the coroutine of every operand.
VARIABLES
  operands,            \* the sequence of operands of the running call
  return_exceptions,   \* the flag of the running call
  operator_func,       \* "plain" | "barrier": how the callable behaves
  rpc,                 \* "idle" | "start" | "gather" | "exit" | "done"
  task,                \* per position: "pending" | "queued" | "running"
                       \*   | "finished" | "resumed"
  future,              \* per position: what operator_func returned or raised
  work_queue,          \* executor._work_queue: positions not yet picked up
  num_threads,         \* len(executor._threads)
  idle_semaphore,      \* executor._idle_semaphore
  ready,               \* loop._ready: wake-ups of the coroutines, in order
  outer,               \* the future asyncio.gather returned
  completed,           \* the positions in the order their invocations ended
  returned             \* what the finished call returned or raised

parallelVars == <<operands, return_exceptions, operator_func, rpc, task, future,
                  work_queue, num_threads, idle_semaphore, ready, outer,
                  completed, returned>>

\* A LocalHost object and its callers (jump_host.py, class LocalHost).
VARIABLES
  local_host,          \* the attributes of the LocalHost object
  constructed          \* Context and docker client objects it has constructed

localHostVars == <<local_host, constructed>>

\* Threads that call connect() on shared JumpHost objects at the same time.
VARIABLES
  thread,              \* per thread: where it is in connect() and its locals
  made,                \* per host: the handles connection_func has returned
  serial               \* no two connect() calls on one host have overlapped

raceVars == <<thread, made, serial>>

\* What the methods of JumpHost, called by one caller, never touch.
environment == <<connection_func, parallelVars, localHostVars, raceVars>>

jumpHostVars == <<cached_connection, cached_docker_client,
                  factoryCalls, openCalls, clientCalls, injected, pc, call,
                  jump_hosts, i, last_exception,
                  successful_host, result, invoked, outcome>>

\* What run_in_parallel never touches.
outsideParallel == <<connection_func, jumpHostVars, localHostVars, raceVars>>

vars == <<connection_func, jumpHostVars, parallelVars, localHostVars, raceVars>>

heapVars == <<cached_connection, cached_docker_client, factoryCalls,
              openCalls, clientCalls, injected>>

locals == <<jump_hosts, i, last_exception, successful_host, result, invoked>>

\* -------------------------------------------------------------- exceptions
Exc(type, args, cause, host, n) ==
  [type |-> type, args |-> args, cause |-> cause, host |-> host, n |-> n]

\* None where an exception may stand (last_exception, __cause__)
NoException == Exc("None", "", "None", None, 0)
NoCause == "None"

\* None where a connection handle may stand
NoConnection == [host |-> None, n |-> 0]

\* None where a docker client may stand
NoClient == [docker_host |-> None, n |-> 0]

\* Every exception wrapped: a trailing `except Exception as e: raise
\* ConnectionError from e`.
ExceptClausesWrapAll(self, fault, n) ==
  Exc("ConnectionError", "", fault, self, n)

\* `raise ConnectionError from e` for the exceptions connect() names; any
\* other exception leaves connect() as it was raised.
ExceptClauses(self, fault, n) ==
  IF fault \in Classified
  THEN Exc("ConnectionError", "", fault, self, n)
  ELSE Exc(fault, "", NoCause, self, n)

NoHostsProvided == Exc("Exception", "No hosts provided", NoCause, None, 0)
UnreachableCode == Exc("Exception", "Unreachable code.", NoCause, None, 0)
IndexError == Exc("IndexError", "tuple index out of range", NoCause, None, 0)

\* How a call ends: it returns a JumpHost (host), a connection, the pair of
\* both, or a JumpHost it constructed (created), or it raises exc.
Outcome(kind, host, connection, client, created, exc) ==
  [kind |-> kind, host |-> host, connection |-> connection,
   client |-> client, created |-> created, exc |-> exc]

NoOutcome == Outcome("None", None, NoConnection, NoClient, <<>>, NoException)
Returned(host, connection) ==
  Outcome("returned", host, connection, NoClient, <<>>, NoException)
ReturnedClient(client) ==
  Outcome("returned", None, NoConnection, client, <<>>, NoException)
ReturnedNew(jump_host) ==
  Outcome("returned", None, NoConnection, NoClient, <<jump_host>>, NoException)
Raised(e) == Outcome("raised", None, NoConnection, NoClient, <<>>, e)

NoCall == [op |-> "None", self |-> None, hosts |-> <<>>, override |-> NoOverride]

\* ---------------------------------------------------------------- JumpHost
\* The part of the heap connect() reads and writes.
Heap ==
  [cached_connection |-> cached_connection,
   cached_docker_client |-> cached_docker_client,
   factoryCalls |-> factoryCalls, openCalls |-> openCalls,
   clientCalls |-> clientCalls, injected |-> injected]

\* The heap at the start of a top-level call: the invocation counts restart.
HeapAtCall ==
  [Heap EXCEPT !.factoryCalls = 0, !.openCalls = 0, !.clientCalls = 0,
               !.injected = "none"]

\* JumpHost(host): a new object with empty caches and the default factories.
JumpHost(host) ==
  [host |-> host, connection_func |-> "fabric.Connection",
   docker_client_func |-> "_remote_docker_connection",
   cached_docker_client |-> NoClient, cached_connection |-> NoConnection]

\* self.host of the candidate objects: the identifier each was constructed
\* with.  Distinct objects may carry the same identifier.
HostName(h) ==
  IF h = 1 THEN <<"m", "y", "-", "h", "o", "s", "t">>
           ELSE <<"f", "a", "k", "e", "h", "o", "s", "t">>

\* connection_func(self.host) returns a new object: a handle that is none of
\* the handles of this host still referenced (the cached one, if any).
NewConnection(m, self) ==
  [host |-> self, n |-> m.cached_connection[self].n + 1]

\* connect() without the `if self.cached_connection is not None` test.
connectNoCacheCheck(m, self, fault, stage) ==
  LET n == m.factoryCalls + 1
      connection == NewConnection(m, self)
      called == [m EXCEPT !.factoryCalls = n, !.injected = fault]
      opened == [called EXCEPT !.openCalls = @ + 1]
  IN  IF fault # "none" /\ stage = "factory"
      THEN [out |-> Raised(ExceptClauses(self, fault, n)), heap |-> called]
      ELSE IF fault # "none" /\ stage = "open"
      THEN [out |-> Raised(ExceptClauses(self, fault, n)), heap |-> opened]
      ELSE [out |-> Returned(None, connection),
            heap |-> [opened EXCEPT !.cached_connection[self] = connection]]

\* connect() assigning self.cached_connection before connection.open().
connectCacheBeforeOpen(m, self, fault, stage) ==
  IF m.cached_connection[self] # NoConnection
  THEN [out |-> Returned(None, m.cached_connection[self]), heap |-> m]
  ELSE
    LET n == m.factoryCalls + 1
        connection == NewConnection(m, self)
        called == [m EXCEPT !.factoryCalls = n, !.injected = fault]
        cached == [called EXCEPT !.cached_connection[self] = connection]
        opened == [cached EXCEPT !.openCalls = @ + 1]
    IN  IF fault # "none" /\ stage = "factory"
        THEN [out |-> Raised(ExceptClauses(self, fault, n)), heap |-> called]
        ELSE IF fault # "none" /\ stage = "open"
        THEN [out |-> Raised(ExceptClauses(self, fault, n)), heap |-> opened]
        ELSE [out |-> Returned(None, connection), heap |-> opened]

\* JumpHost.connect on heap m.  fault is what connection_func or open()
\* raises for this host ("none" when both succeed), stage is which of the
\* two raises it.  Gives the call's outcome and the heap it leaves.
connect(m, self, fault, stage) ==
  IF m.cached_connection[self] # NoConnection
  THEN [out |-> Returned(None, m.cached_connection[self]), heap |-> m]
  ELSE
    LET n == m.factoryCalls + 1
        connection == NewConnection(m, self)
        called == [m EXCEPT !.factoryCalls = n, !.injected = fault]
        opened == [called EXCEPT !.openCalls = @ + 1]
    IN  IF fault # "none" /\ stage = "factory"
        THEN [out |-> Raised(ExceptClauses(self, fault, n)), heap |-> called]
        ELSE IF fault # "none" /\ stage = "open"
        THEN [out |-> Raised(ExceptClauses(self, fault, n)), heap |-> opened]
        ELSE [out |-> Returned(None, connection),
              heap |-> [opened EXCEPT !.cached_connection[self] = connection]]

\* What the host's connection_func / open() can do on one invocation: a
\* GOOD host's succeed, a BAD host's raise some fault at some stage.
CanFault(self, fault, stage) ==
  /\ (connection_func[self] = "GOOD") = (fault = "none")
  /\ fault = "none" => stage = "open"

SetHeap(m) ==
  /\ cached_connection' = m.cached_connection
  /\ cached_docker_client' = m.cached_docker_client
  /\ clientCalls' = m.clientCalls
  /\ factoryCalls' = m.factoryCalls
  /\ openCalls' = m.openCalls
  /\ injected' = m.injected

NoLocals ==
  /\ jump_hosts' = <<>>
  /\ i' = 0
  /\ last_exception' = NoException
  /\ successful_host' = None
  /\ result' = NoConnection
  /\ invoked' = <<>>

CanCall == pc = "idle"

\* The caller has its result (or has caught the exception) and goes on to
\* its next statement.
Continue ==
  /\ pc = "done"
  /\ pc' = "idle"
  /\ call' = NoCall
  /\ outcome' = NoOutcome
  /\ NoLocals
  /\ SetHeap(HeapAtCall)
  /\ UNCHANGED environment

\* A caller invokes jump_host.connect() directly.
Connect(self) ==
  /\ CanCall
  /\ \E fault \in Faults \cup {"none"}, stage \in Stages :
       /\ CanFault(self, fault, stage)
       /\ LET r == connect(HeapAtCall, self, fault, stage)
          IN  /\ SetHeap(r.heap)
              /\ outcome' = r.out
  /\ call' = [op |-> "connect", self |-> self, hosts |-> <<>>,
               override |-> NoOverride]
  /\ pc' = "done"
  /\ NoLocals
  /\ UNCHANGED environment

\* Every exception wrapped: a trailing `except Exception as e: raise
\* ConnectionError from e`.
ClientExceptClausesWrapAll(self, fault, n) ==
  Exc("ConnectionError", "", fault, self, n)

\* The except clauses of docker_client(): `raise ConnectionError from e` for
\* the exceptions it names; any other exception leaves it as it was raised.
ClientExceptClauses(self, fault, n) ==
  IF fault \in ClientClassified
  THEN Exc("ConnectionError", "", fault, self, n)
  ELSE Exc(fault, "", NoCause, self, n)

\* docker_client_func(self.host) returns a new object.
NewClient(m, self) ==
  [docker_host |-> self, n |-> m.cached_docker_client[self].n + 1]

\* A docker_client() that takes the cached connection for its own cache.
docker_clientSharesCache(m, self, fault) ==
  IF m.cached_docker_client[self] # NoClient \/ m.cached_connection[self] # NoConnection
  THEN [out |-> ReturnedClient(m.cached_docker_client[self]), heap |-> m]
  ELSE
    LET n == m.clientCalls + 1
        client == NewClient(m, self)
        called == [m EXCEPT !.clientCalls = n, !.injected = fault]
    IN  IF fault # "none"
        THEN [out |-> Raised(ClientExceptClauses(self, fault, n)), heap |-> called]
        ELSE [out |-> ReturnedClient(client),
              heap |-> [called EXCEPT !.cached_docker_client[self] = client]]

\* JumpHost.docker_client on heap m; fault is what docker_client_func raises
\* on this invocation ("none" when it returns a client).
docker_client(m, self, fault) ==
  IF m.cached_docker_client[self] # NoClient
  THEN [out |-> ReturnedClient(m.cached_docker_client[self]), heap |-> m]
  ELSE
    LET n == m.clientCalls + 1
        client == NewClient(m, self)
        called == [m EXCEPT !.clientCalls = n, !.injected = fault]
    IN  IF fault # "none"
        THEN [out |-> Raised(ClientExceptClauses(self, fault, n)), heap |-> called]
        ELSE [out |-> ReturnedClient(client),
              heap |-> [called EXCEPT !.cached_docker_client[self] = client]]

\* A caller invokes jump_host.docker_client() directly.
DockerClient(self) ==
  /\ CanCall
  /\ \E fault \in ClientFaults \cup {"none"} :
       LET r == docker_client(HeapAtCall, self, fault)
       IN  /\ SetHeap(r.heap)
           /\ outcome' = r.out
  /\ call' = [op |-> "docker_client", self |-> self, hosts |-> <<>>,
               override |-> NoOverride]
  /\ pc' = "done"
  /\ NoLocals
  /\ UNCHANGED environment

\* ------------------------------------------------------ try_function_on_any
\* Entry of try_function_on_any(func, *hosts) for the top-level call c; func
\* is `lambda jh: jh.connect()` in both callers.
EnterLoop(c, hosts) ==
  /\ call' = c
  /\ jump_hosts' = hosts
  /\ i' = 1
  /\ last_exception' = NoException
  /\ successful_host' = None
  /\ result' = NoConnection
  /\ invoked' = <<>>
  /\ outcome' = NoOutcome
  /\ SetHeap(HeapAtCall)
  /\ pc' = "loop"
  /\ UNCHANGED environment

\* JumpHost.try_connect_to_any(*hosts)
TryConnectToAny(hosts) ==
  /\ CanCall
  /\ EnterLoop([op |-> "try_connect_to_any", self |-> None, hosts |-> hosts,
                override |-> NoOverride], hosts)

\* A func that is bound to the first candidate whichever one the loop is at.
FuncOnFirstCandidate(fault, stage) ==
  connect(Heap, jump_hosts[1], fault, stage)

\* func(host) on the candidate at position i, under some behaviour the
\* host's factory can show.
FuncOnCandidate(fault, stage) ==
  connect(Heap, jump_hosts[i], fault, stage)

InLoop == pc = "loop" /\ i <= Len(jump_hosts)

\* The loop without its break: it goes on to the next candidate.
FuncReturnsNoBreak ==
  /\ InLoop
  /\ \E fault \in Faults \cup {"none"}, stage \in Stages :
       /\ CanFault(jump_hosts[i], fault, stage)
       /\ LET r == FuncOnCandidate(fault, stage)
          IN  /\ r.out.kind = "returned"
              /\ SetHeap(r.heap)
              /\ result' = r.out.connection
  /\ successful_host' = jump_hosts[i]
  /\ invoked' = Append(invoked, i)
  /\ i' = i + 1
  /\ UNCHANGED <<environment, call, jump_hosts, last_exception, outcome, pc>>

\* result = func(host) returns: successful_host = host; break
FuncReturns ==
  /\ InLoop
  /\ \E fault \in Faults \cup {"none"}, stage \in Stages :
       /\ CanFault(jump_hosts[i], fault, stage)
       /\ LET r == FuncOnCandidate(fault, stage)
          IN  /\ r.out.kind = "returned"
              /\ SetHeap(r.heap)
              /\ result' = r.out.connection
  /\ successful_host' = jump_hosts[i]
  /\ invoked' = Append(invoked, i)
  /\ pc' = "after"
  /\ UNCHANGED <<environment, call, jump_hosts, i, last_exception, outcome>>

\* The handler re-raising instead of continuing: no failover.
ExceptConnectionErrorEscapes ==
  /\ InLoop
  /\ \E fault \in Faults \cup {"none"}, stage \in Stages :
       /\ CanFault(jump_hosts[i], fault, stage)
       /\ LET r == FuncOnCandidate(fault, stage)
          IN  /\ r.out.kind = "raised"
              /\ r.out.exc.type = "ConnectionError"
              /\ SetHeap(r.heap)
              /\ last_exception' = r.out.exc
              /\ outcome' = Raised(r.out.exc)
  /\ invoked' = Append(invoked, i)
  /\ pc' = "done"
  /\ UNCHANGED <<environment, call, jump_hosts, i, successful_host, result>>

\* The handler recording only the first failure.
ExceptConnectionErrorKeepsFirst ==
  /\ InLoop
  /\ \E fault \in Faults \cup {"none"}, stage \in Stages :
       /\ CanFault(jump_hosts[i], fault, stage)
       /\ LET r == FuncOnCandidate(fault, stage)
          IN  /\ r.out.kind = "raised"
              /\ r.out.exc.type = "ConnectionError"
              /\ SetHeap(r.heap)
              /\ last_exception' = IF last_exception = NoException
                                    THEN r.out.exc
                                    ELSE last_exception
  /\ invoked' = Append(invoked, i)
  /\ i' = i + 1
  /\ UNCHANGED <<environment, call, jump_hosts, successful_host, result,
                 outcome, pc>>

\* except ConnectionError as e: last_exception = e; continue
ExceptConnectionError ==
  /\ InLoop
  /\ \E fault \in Faults \cup {"none"}, stage \in Stages :
       /\ CanFault(jump_hosts[i], fault, stage)
       /\ LET r == FuncOnCandidate(fault, stage)
          IN  /\ r.out.kind = "raised"
              /\ r.out.exc.type = "ConnectionError"
              /\ SetHeap(r.heap)
              /\ last_exception' = r.out.exc
  /\ invoked' = Append(invoked, i)
  /\ i' = i + 1
  /\ UNCHANGED <<environment, call, jump_hosts, successful_host, result,
                 outcome, pc>>

\* The loop without the broad except clause: the exception leaves the call.
ExceptExceptionEscapes ==
  /\ InLoop
  /\ \E fault \in Faults \cup {"none"}, stage \in Stages :
       /\ CanFault(jump_hosts[i], fault, stage)
       /\ LET r == FuncOnCandidate(fault, stage)
          IN  /\ r.out.kind = "raised"
              /\ r.out.exc.type # "ConnectionError"
              /\ SetHeap(r.heap)
              /\ outcome' = Raised(r.out.exc)
  /\ invoked' = Append(invoked, i)
  /\ pc' = "done"
  /\ UNCHANGED <<environment, call, jump_hosts, i, last_exception,
                 successful_host, result>>

\* except Exception as e: last_exception = e; continue
ExceptException ==
  /\ InLoop
  /\ \E fault \in Faults \cup {"none"}, stage \in Stages :
       /\ CanFault(jump_hosts[i], fault, stage)
       /\ LET r == FuncOnCandidate(fault, stage)
          IN  /\ r.out.kind = "raised"
              /\ r.out.exc.type # "ConnectionError"
              /\ SetHeap(r.heap)
              /\ last_exception' = r.out.exc
  /\ invoked' = Append(invoked, i)
  /\ i' = i + 1
  /\ UNCHANGED <<environment, call, jump_hosts, successful_host, result,
                 outcome, pc>>

\* The else clause raising last_exception without testing it.
ForElseNoCheck ==
  /\ pc = "loop"
  /\ i > Len(jump_hosts)
  /\ outcome' = Raised(last_exception)
  /\ pc' = "done"
  /\ UNCHANGED <<environment, heapVars, call, locals>>

\* The for loop's else clause: the sequence is exhausted without a break.
ForElse ==
  /\ pc = "loop"
  /\ i > Len(jump_hosts)
  /\ outcome' = IF last_exception # NoException
                THEN Raised(last_exception)
                ELSE Raised(NoHostsProvided)
  /\ pc' = "done"
  /\ UNCHANGED <<environment, heapVars, call, locals>>

\* After the break: return successful_host, result.  choose_from keeps the
\* host of the pair and drops the result.
AfterLoop ==
  /\ pc = "after"
  /\ outcome' = IF successful_host # None
                THEN IF call.op = "choose_from"
                     THEN Returned(successful_host, NoConnection)
                     ELSE Returned(successful_host, result)
                ELSE Raised(UnreachableCode)
  /\ pc' = "done"
  /\ UNCHANGED <<environment, heapVars, call, locals>>

\* -------------------------------------------------------------- choose_from
\* tuple indexing default_hosts[j] with Python's index j (0-based, negative
\* j counts from the end).
GetItem(default_hosts, j) ==
  LET len == Len(default_hosts)
  IN  IF 0 <= j /\ j < len THEN Returned(default_hosts[j + 1], NoConnection)
      ELSE IF 0 - len <= j /\ j < 0
      THEN Returned(default_hosts[len + j + 1], NoConnection)
      ELSE Raised(IndexError)

\* Only isinstance(override, int): a str is always taken as a hostname.
IsIndexIntOnly(override) == override.t = "int"

\* isinstance(override, int) or (isinstance(override, str) and
\* override.isnumeric())
IsIndex(override) ==
  \/ override.t = "int"
  \/ override.t = "str" /\ isnumeric(override.s)

\* int(override)
IndexOf(override) ==
  IF override.t = "int" THEN override.n ELSE int(override.s)

\* A variant of the hostname branch that hands out the candidate carrying the
\* identifier when there is one.
FromHostnameLookup(default_hosts, s) ==
  IF \E j \in 1..Len(default_hosts) : HostName(default_hosts[j]) = s
  THEN Returned(default_hosts[CHOOSE j \in 1..Len(default_hosts) :
                                HostName(default_hosts[j]) = s],
                NoConnection)
  ELSE ReturnedNew(JumpHost(s))

\* return JumpHost(override): the candidates play no part.
FromHostname(default_hosts, s) ==
  ReturnedNew(JumpHost(s))

\* JumpHost.choose_from(*default_hosts, override=override)
ChooseFrom(default_hosts, override) ==
  /\ CanCall
  /\ LET c == [op |-> "choose_from", self |-> None, hosts |-> default_hosts,
               override |-> override]
     IN  IF IsIndex(override)
         THEN /\ outcome' = GetItem(default_hosts, IndexOf(override) - 1)
              /\ call' = c
              /\ pc' = "done"
              /\ NoLocals
              /\ SetHeap(HeapAtCall)
              /\ UNCHANGED environment
         ELSE IF override # NoOverride
         THEN /\ outcome' = FromHostname(default_hosts, override.s)
              /\ call' = c
              /\ pc' = "done"
              /\ NoLocals
              /\ SetHeap(HeapAtCall)
              /\ UNCHANGED environment
         ELSE \E default_host_list \in Shuffles(default_hosts) :
                EnterLoop(c, default_host_list)

\* ---------------------------------------------------------------- LocalHost
MaxConstructed == 3

\* The reference to the LocalHost object: no element of Hosts.
LocalRef == NumHosts + 1

\* LocalHost(): super().__init__("losalhost"), so the attributes of a JumpHost
\* with the default factories and empty caches.
LocalHost == JumpHost(<<"l", "o", "s", "a", "l", "h", "o", "s", "t">>)

\* What docker.from_env() can raise.
LocalFaults == {"DockerException"}

\* No LocalHost call has been made.
NoLocalHostCalls ==
  /\ local_host = LocalHost
  /\ constructed = 0

\* A LocalHost that inherits connect() from JumpHost and so fills its cache.
LocalHostConnectInherited(obj, n) ==
  LET connection == [host |-> LocalRef, n |-> n + 1]
  IN  IF obj.cached_connection # NoConnection
      THEN [out |-> Returned(None, obj.cached_connection), obj |-> obj]
      ELSE [out |-> Returned(None, connection),
            obj |-> [obj EXCEPT !.cached_connection = connection]]

\* LocalHost.connect(): return invoke.context.Context(), a new object; obj
\* is the LocalHost, n the number of objects constructed so far.
LocalHostConnect(obj, n) ==
  [out |-> Returned(None, [host |-> LocalRef, n |-> n + 1]), obj |-> obj]

\* LocalHost.docker_client(): return docker.from_env(), a new object, or
\* whatever docker.from_env() raises, as it was raised.
LocalHostDockerClient(obj, n, fault) ==
  IF fault # "none"
  THEN [out |-> Raised(Exc(fault, "", NoCause, LocalRef, 0)), obj |-> obj]
  ELSE [out |-> ReturnedClient([docker_host |-> LocalRef, n |-> n + 1]),
        obj |-> obj]

\* A caller invokes connect() on the LocalHost.
LocalConnect ==
  /\ CanCall
  /\ constructed < MaxConstructed
  /\ LET r == LocalHostConnect(local_host, constructed)
     IN  /\ outcome' = r.out
         /\ local_host' = r.obj
  /\ constructed' = constructed + 1
  /\ call' = [op |-> "LocalHost.connect", self |-> LocalRef, hosts |-> <<>>,
               override |-> NoOverride]
  /\ pc' = "done"
  /\ NoLocals
  /\ SetHeap(HeapAtCall)
  /\ UNCHANGED <<connection_func, parallelVars, raceVars>>

\* A caller invokes docker_client() on the LocalHost.
LocalDockerClient ==
  /\ CanCall
  /\ constructed < MaxConstructed
  /\ \E fault \in LocalFaults \cup {"none"} :
       LET r == LocalHostDockerClient(local_host, constructed, fault)
       IN  /\ outcome' = r.out
           /\ local_host' = r.obj
           /\ constructed' = IF fault = "none" THEN constructed + 1
                                               ELSE constructed
  /\ call' = [op |-> "LocalHost.docker_client", self |-> LocalRef,
               hosts |-> <<>>, override |-> NoOverride]
  /\ pc' = "done"
  /\ NoLocals
  /\ SetHeap(HeapAtCall)
  /\ UNCHANGED <<connection_func, parallelVars, raceVars>>

\* ------------------------------------------- connect() from several threads
NumThreads == 2

\* The handles connection_func returns for one host before the threads stop
\* calling connect() on it.
MaxMade == 3

ThreadIds == 1..NumThreads

\* The JumpHost objects the threads share.
RaceHosts == {h \in Hosts : h <= 2}

\* A thread outside connect().
Outside ==
  [pc |-> "idle", self |-> None, connection |-> NoConnection, ret |-> NoOutcome]

\* No thread is in connect() and none has been.
NoRace ==
  /\ thread = [t \in ThreadIds |-> Outside]
  /\ made = [h \in Hosts |-> 0]
  /\ serial = TRUE

\* The threads that have entered connect() on host h and not yet left it.
Inside(h) ==
  {t \in ThreadIds : thread[t].self = h /\ thread[t].pc \notin {"idle", "done"}}

raceFrame ==
  <<connection_func, cached_docker_client, factoryCalls, openCalls,
    clientCalls, injected, pc, call, locals, outcome, parallelVars,
    localHostVars>>

\* Thread t calls self.connect() and evaluates `if self.cached_connection is
\* not None: return self.cached_connection`.
RaceCheck(t, self) ==
  /\ thread[t].pc = "idle"
  /\ made[self] + Cardinality(Inside(self)) < MaxMade
  /\ thread' = [thread EXCEPT ![t] =
       IF cached_connection[self] # NoConnection
       THEN [pc |-> "done", self |-> self, connection |-> NoConnection,
             ret |-> Returned(None, cached_connection[self])]
       ELSE [pc |-> "checked", self |-> self, connection |-> NoConnection,
             ret |-> NoOutcome]]
  /\ serial' = (serial /\ Inside(self) = {})
  /\ UNCHANGED <<cached_connection, made>>
  /\ UNCHANGED raceFrame

\* connection = self.connection_func(self.host): a new handle, or an exception
\* that leaves connect() through its except clauses.
RaceFactory(t) ==
  /\ thread[t].pc = "checked"
  /\ LET self == thread[t].self
     IN  \E fault \in Faults \cup {"none"}, stage \in Stages :
           /\ CanFault(self, fault, stage)
           /\ IF fault # "none" /\ stage = "factory"
              THEN /\ thread' = [thread EXCEPT ![t].pc = "done",
                                   ![t].ret = Raised(ExceptClauses(self, fault, 1))]
                   /\ UNCHANGED made
              ELSE /\ thread' = [thread EXCEPT ![t].pc = "made",
                                   ![t].connection =
                                     [host |-> self, n |-> made[self] + 1]]
                   /\ made' = [made EXCEPT ![self] = @ + 1]
  /\ UNCHANGED <<cached_connection, serial>>
  /\ UNCHANGED raceFrame

\* connection.open()
RaceOpen(t) ==
  /\ thread[t].pc = "made"
  /\ LET self == thread[t].self
     IN  \E fault \in Faults \cup {"none"} :
           /\ CanFault(self, fault, "open")
           /\ IF fault # "none"
              THEN thread' = [thread EXCEPT ![t].pc = "done",
                                ![t].connection = NoConnection,
                                ![t].ret = Raised(ExceptClauses(self, fault, 1))]
              ELSE thread' = [thread EXCEPT ![t].pc = "opened"]
  /\ UNCHANGED <<cached_connection, made, serial>>
  /\ UNCHANGED raceFrame

\* A cache assignment that leaves a handle already cached in place.
RaceCacheKeepsFirst(t) ==
  /\ thread[t].pc = "opened"
  /\ cached_connection' =
       IF cached_connection[thread[t].self] # NoConnection
       THEN cached_connection
       ELSE [cached_connection EXCEPT ![thread[t].self] = thread[t].connection]
  /\ thread' = [thread EXCEPT ![t].pc = "done",
                  ![t].ret = Returned(None, thread[t].connection)]
  /\ UNCHANGED <<made, serial>>
  /\ UNCHANGED raceFrame

\* self.cached_connection = connection; return connection
RaceCache(t) ==
  /\ thread[t].pc = "opened"
  /\ cached_connection' =
       [cached_connection EXCEPT ![thread[t].self] = thread[t].connection]
  /\ thread' = [thread EXCEPT ![t].pc = "done",
                  ![t].ret = Returned(None, thread[t].connection)]
  /\ UNCHANGED <<made, serial>>
  /\ UNCHANGED raceFrame

\* The thread has its handle (or has caught the exception) and goes on.
RaceContinue(t) ==
  /\ thread[t].pc = "done"
  /\ thread' = [thread EXCEPT ![t] = Outside]
  /\ UNCHANGED <<cached_connection, made, serial>>
  /\ UNCHANGED raceFrame

\* --------------------------------------------------------- run_in_parallel
MaxOperands == 3

OperandValues == 1..MaxOperands

\* The collections of operands a caller passes, the empty one included.
\* run_in_parallel only hands an operand on and uses it as a dict key, so of
\* the collections that differ by a renaming of the values one is kept: the
\* one whose values first occur in the order 1, 2, 3...
OperandSeqs ==
  {s \in UNION {[1..n -> OperandValues] : n \in 0..MaxOperands} :
     \A j \in 1..Len(s) :
       \/ s[j] = 1
       \/ \E k \in 1..(j - 1) : s[k] = s[j] \/ s[k] = s[j] - 1}

\* What one invocation of operator_func produced: the object it returned or
\* the exception object it raised, told apart by the invocation (the position
\* of the operand it was made for).
NoFuture == [kind |-> "none", type |-> "", by |-> 0]
Value(j) == [kind |-> "value", type |-> "", by |-> j]
Raises(j) == [kind |-> "exception", type |-> "ZeroDivisionError", by |-> j]

\* ThreadPoolExecutor(max_workers=0): "max_workers must be greater than 0"
ValueError == [kind |-> "exception", type |-> "ValueError", by |-> 0]

\* What run_in_parallel handed to its caller.
NoReturn == [kind |-> "none", mapping |-> << >>, exc |-> NoFuture]
ReturnedMapping(d) == [kind |-> "returned", mapping |-> d, exc |-> NoFuture]
RaisedFrom(e) == [kind |-> "raised", mapping |-> << >>, exc |-> e]

Pending == [state |-> "pending", exc |-> NoFuture]

\* No call of run_in_parallel is running.
NoRun ==
  /\ operands = << >>
  /\ return_exceptions = TRUE
  /\ operator_func = "plain"
  /\ rpc = "idle"
  /\ task = << >>
  /\ future = << >>
  /\ work_queue = << >>
  /\ num_threads = 0
  /\ idle_semaphore = 0
  /\ ready = << >>
  /\ outer = Pending
  /\ completed = << >>
  /\ returned = NoReturn

\* A pool of one worker however many operands there are.
max_workersOne(ops) == IF Len(ops) = 0 THEN 0 ELSE 1

\* ThreadPoolExecutor(max_workers=len(operands))
max_workers(ops) == Len(ops)

\* A coroutine without the return_exceptions branch: it always re-raises.
coroutineAlwaysRaises(op, fut, re) ==
  IF fut.kind = "exception"
  THEN [kind |-> "raise", exc |-> fut, pair |-> <<op, fut>>]
  ELSE [kind |-> "return", exc |-> NoFuture, pair |-> <<op, fut>>]

\* coroutine(op, loop, executor) once the executor's future is set: it returns
\* the pair (op, result) or, with return_exceptions false, re-raises.
coroutine(op, fut, re) ==
  IF fut.kind = "exception" /\ ~re
  THEN [kind |-> "raise", exc |-> fut, pair |-> <<op, fut>>]
  ELSE [kind |-> "return", exc |-> NoFuture, pair |-> <<op, fut>>]

\* What asyncio.gather delivers: the coroutines' pairs in the order of the
\* operands.
GatherResult == [j \in 1..Len(operands) |-> <<operands[j], future[j]>>]

\* A mapping in which the first pair of a key stays.
RECURSIVE dictKeepsFirst(_)
dictKeepsFirst(results) ==
  IF Len(results) = 0 THEN << >>
  ELSE LET n == Len(results)
           d == dictKeepsFirst(SubSeq(results, 1, n - 1))
       IN  [k \in (DOMAIN d) \cup {results[n][1]} |->
              IF k \in DOMAIN d THEN d[k] ELSE results[n][2]]

\* dict(results): pairs are inserted left to right, a later pair replaces an
\* earlier one with an equal key.
RECURSIVE dict(_)
dict(results) ==
  IF Len(results) = 0 THEN << >>
  ELSE LET n == Len(results)
           d == dict(SubSeq(results, 1, n - 1))
       IN  [k \in (DOMAIN d) \cup {results[n][1]} |->
              IF k = results[n][1] THEN results[n][2] ELSE d[k]]

Threads == {j \in DOMAIN task : task[j] = "running"}

\* run_in_parallel(operands, operator_func, return_exceptions) is called.
RunInParallel(ops, re, f) ==
  /\ rpc = "idle"
  /\ operands' = ops
  /\ return_exceptions' = re
  /\ operator_func' = f
  /\ IF max_workers(ops) <= 0
     THEN /\ rpc' = "done"
          /\ returned' = RaisedFrom(ValueError)
          /\ UNCHANGED <<task, future>>
     ELSE /\ rpc' = "start"
          /\ returned' = NoReturn
          /\ task' = [j \in 1..Len(ops) |-> "pending"]
          /\ future' = [j \in 1..Len(ops) |-> NoFuture]
  /\ UNCHANGED <<work_queue, num_threads, idle_semaphore, ready, outer,
                 completed>>
  /\ UNCHANGED outsideParallel

\* The first step of the next coroutine, in the order of the operands:
\* loop.run_in_executor submits the work item, and the executor takes an idle
\* thread or starts a new one while it has fewer than max_workers.
Submit ==
  /\ rpc = "start"
  /\ LET j == CHOOSE k \in DOMAIN task :
                /\ task[k] = "pending"
                /\ \A l \in DOMAIN task : task[l] = "pending" => k <= l
     IN  /\ task' = [task EXCEPT ![j] = "queued"]
         /\ work_queue' = Append(work_queue, j)
         /\ IF idle_semaphore > 0
            THEN /\ idle_semaphore' = idle_semaphore - 1
                 /\ UNCHANGED num_threads
            ELSE IF num_threads < max_workers(operands)
            THEN /\ num_threads' = num_threads + 1
                 /\ UNCHANGED idle_semaphore
            ELSE UNCHANGED <<num_threads, idle_semaphore>>
         /\ rpc' = IF j = Len(operands) THEN "gather" ELSE "start"
  /\ UNCHANGED <<operands, return_exceptions, operator_func, future, ready,
                 outer, completed, returned>>
  /\ UNCHANGED outsideParallel

\* A worker thread that runs nothing takes the oldest work item.
Worker ==
  /\ rpc \in {"start", "gather", "exit"}
  /\ work_queue # << >>
  /\ Cardinality(Threads) < num_threads
  /\ task' = [task EXCEPT ![Head(work_queue)] = "running"]
  /\ work_queue' = Tail(work_queue)
  /\ UNCHANGED <<operands, return_exceptions, operator_func, rpc, future,
                 num_threads, idle_semaphore, ready, outer, completed,
                 returned>>
  /\ UNCHANGED outsideParallel

\* operator_func(op) ends in its thread, returning or raising: the future is
\* set, the coroutine's wake-up is handed to the loop and the thread is idle.
\* A "barrier" callable ends only once the work of every operand has started.
OperatorFunc(j, raises) ==
  /\ rpc \in {"start", "gather", "exit"}
  /\ task[j] = "running"
  /\ operator_func = "barrier" =>
       \A k \in DOMAIN task : task[k] \notin {"pending", "queued"}
  /\ future' = [future EXCEPT ![j] = IF raises THEN Raises(j) ELSE Value(j)]
  /\ task' = [task EXCEPT ![j] = "finished"]
  /\ ready' = Append(ready, j)
  /\ completed' = Append(completed, j)
  /\ idle_semaphore' = idle_semaphore + 1
  /\ UNCHANGED <<operands, return_exceptions, operator_func, rpc, work_queue,
                 num_threads, outer, returned>>
  /\ UNCHANGED outsideParallel

\* A loop that runs the wake-up of the earliest operand first.
ResumeInInputOrder ==
  /\ rpc = "gather"
  /\ ready # << >>
  /\ LET j == CHOOSE k \in {ready[l] : l \in 1..Len(ready)} :
                \A l \in 1..Len(ready) : k <= ready[l]
         c == coroutine(operands[j], future[j], return_exceptions)
     IN  /\ ready' = SelectSeq(ready, LAMBDA k : k # j)
         /\ task' = [task EXCEPT ![j] = "resumed"]
         /\ IF c.kind = "raise"
            THEN /\ outer' = [state |-> "exception", exc |-> c.exc]
                 /\ rpc' = "exit"
            ELSE IF \A k \in DOMAIN task : k # j => task[k] = "resumed"
            THEN /\ outer' = [state |-> "result", exc |-> NoFuture]
                 /\ rpc' = "exit"
            ELSE UNCHANGED <<outer, rpc>>
  /\ UNCHANGED <<operands, return_exceptions, operator_func, future, work_queue,
                 num_threads, idle_semaphore, completed, returned>>
  /\ UNCHANGED outsideParallel

\* The loop runs the oldest wake-up: the coroutine returns its pair or raises,
\* and gather sets its future on the first exception or on the last result.
Resume ==
  /\ rpc = "gather"
  /\ ready # << >>
  /\ LET j == Head(ready)
         c == coroutine(operands[j], future[j], return_exceptions)
     IN  /\ ready' = Tail(ready)
         /\ task' = [task EXCEPT ![j] = "resumed"]
         /\ IF c.kind = "raise"
            THEN /\ outer' = [state |-> "exception", exc |-> c.exc]
                 /\ rpc' = "exit"
            ELSE IF \A k \in DOMAIN task : k # j => task[k] = "resumed"
            THEN /\ outer' = [state |-> "result", exc |-> NoFuture]
                 /\ rpc' = "exit"
            ELSE UNCHANGED <<outer, rpc>>
  /\ UNCHANGED <<operands, return_exceptions, operator_func, future, work_queue,
                 num_threads, idle_semaphore, completed, returned>>
  /\ UNCHANGED outsideParallel

\* A shutdown that does not wait for the workers.
ShutdownNoWait == TRUE

\* executor.shutdown(wait=True) returns once every work item has run.
ShutdownReturns ==
  \A j \in DOMAIN task : task[j] \in {"finished", "resumed"}

\* Leaving the with block, then run_until_complete and dict(results).
Exit ==
  /\ rpc = "exit"
  /\ ShutdownReturns
  /\ returned' = IF outer.state = "exception"
                 THEN RaisedFrom(outer.exc)
                 ELSE ReturnedMapping(dict(GatherResult))
  /\ rpc' = "done"
  /\ UNCHANGED <<operands, return_exceptions, operator_func, task, future,
                 work_queue, num_threads, idle_semaphore, ready, outer,
                 completed>>
  /\ UNCHANGED outsideParallel

\* The caller has looked at what it was handed; the next call can begin.
ContinueParallel ==
  /\ rpc = "done"
  /\ operands' = << >>
  /\ return_exceptions' = TRUE
  /\ operator_func' = "plain"
  /\ rpc' = "idle"
  /\ task' = << >>
  /\ future' = << >>
  /\ work_queue' = << >>
  /\ num_threads' = 0
  /\ idle_semaphore' = 0
  /\ ready' = << >>
  /\ outer' = Pending
  /\ completed' = << >>
  /\ returned' = NoReturn
  /\ UNCHANGED outsideParallel

\* -------------------------------------------------------------------- spec
Init ==
  /\ connection_func \in [Hosts -> {"GOOD", "BAD"}]
  /\ cached_connection = [h \in Hosts |-> NoConnection]
  /\ cached_docker_client = [h \in Hosts |-> NoClient]
  /\ clientCalls = 0
  /\ factoryCalls = 0
  /\ openCalls = 0
  /\ injected = "none"
  /\ pc = "idle"
  /\ call = NoCall
  /\ jump_hosts = <<>>
  /\ i = 0
  /\ last_exception = NoException
  /\ successful_host = None
  /\ result = NoConnection
  /\ invoked = <<>>
  /\ outcome = NoOutcome
  /\ NoRun
  /\ NoLocalHostCalls
  /\ NoRace

\* The calls a caller can make, on any host and with any arguments.
CallConnect == CanCall /\ \E self \in Hosts : Connect(self)

CallDockerClient == CanCall /\ \E self \in Hosts : DockerClient(self)

CallTryConnectToAny ==
  CanCall /\ \E hosts \in CandidateSeqs : TryConnectToAny(hosts)

CallChooseFrom ==
  CanCall /\ \E hosts \in CandidateSeqs, override \in Overrides :
               ChooseFrom(hosts, override)

Next ==
  \/ CallConnect
  \/ CallTryConnectToAny
  \/ CallChooseFrom
  \/ FuncReturns
  \/ ExceptConnectionError
  \/ ExceptException
  \/ ForElse
  \/ AfterLoop
  \/ Continue

Spec == Init /\ [][Next]_vars

\* The two accessors of a JumpHost called directly, in any order.
NextAccessors ==
  \/ CallConnect
  \/ CallDockerClient
  \/ Continue

SpecAccessors == Init /\ [][NextAccessors]_vars

\* run_in_parallel called again and again, its tasks interleaved in every way.
InitParallel ==
  /\ connection_func = [h \in Hosts |-> "GOOD"]
  /\ cached_connection = [h \in Hosts |-> NoConnection]
  /\ cached_docker_client = [h \in Hosts |-> NoClient]
  /\ clientCalls = 0
  /\ factoryCalls = 0
  /\ openCalls = 0
  /\ injected = "none"
  /\ pc = "idle"
  /\ call = NoCall
  /\ jump_hosts = <<>>
  /\ i = 0
  /\ last_exception = NoException
  /\ successful_host = None
  /\ result = NoConnection
  /\ invoked = <<>>
  /\ outcome = NoOutcome
  /\ NoRun
  /\ NoLocalHostCalls
  /\ NoRace

CallRunInParallel ==
  /\ rpc = "idle"
  /\ \E ops \in OperandSeqs, re \in BOOLEAN, f \in {"plain", "barrier"} :
       RunInParallel(ops, re, f)

OperatorFuncEnds ==
  \E j \in DOMAIN task, raises \in BOOLEAN : OperatorFunc(j, raises)

NextParallel ==
  \/ CallRunInParallel
  \/ Submit
  \/ Worker
  \/ OperatorFuncEnds
  \/ Resume
  \/ Exit
  \/ ContinueParallel

SpecParallel == InitParallel /\ [][NextParallel]_vars

\* The same with the scheduling the code relies on: the loop runs what is
\* ready, an idle worker thread takes queued work, shutdown returns once the
\* workers are through, and an invocation of operator_func that can end does.
SpecParallelFair ==
  /\ InitParallel
  /\ [][NextParallel]_vars
  /\ WF_vars(Submit)
  /\ WF_vars(Worker)
  /\ WF_vars(OperatorFuncEnds)
  /\ WF_vars(Resume)
  /\ WF_vars(Exit)

\* The LocalHost and the JumpHosts, their accessors called in any order.
LocalHostCalls ==
  \/ LocalConnect
  \/ LocalDockerClient

NextLocalHost ==
  \/ LocalHostCalls
  \/ CallConnect
  \/ CallDockerClient
  \/ Continue

SpecLocalHost == Init /\ [][NextLocalHost]_vars

\* Threads calling connect() on the JumpHosts, their steps interleaved.
ThreadChecks == \E t \in ThreadIds, self \in RaceHosts : RaceCheck(t, self)
ThreadMakes == \E t \in ThreadIds : RaceFactory(t)
ThreadOpens == \E t \in ThreadIds : RaceOpen(t)
ThreadCaches == \E t \in ThreadIds : RaceCache(t)
ThreadContinues == \E t \in ThreadIds : RaceContinue(t)

NextRace ==
  \/ ThreadChecks
  \/ ThreadMakes
  \/ ThreadOpens
  \/ ThreadCaches
  \/ ThreadContinues

InitRace ==
  /\ Init
  /\ \A h \in Hosts \ RaceHosts : connection_func[h] = "GOOD"

SpecRace == InitRace /\ [][NextRace]_vars

\* ================================================================== claims
\* A call that runs the failover loop of try_function_on_any.
InFailover ==
  \/ call.op = "try_connect_to_any"
  \/ call.op = "choose_from" /\ call.override = NoOverride

Finished == pc = "done"

\* The positions of s whose candidate connects whenever it is asked to.
GoodAt(s) == {j \in 1..Len(s) : connection_func[s[j]] = "GOOD"}

Least(S) == CHOOSE x \in S : \A y \in S : x <= y

Elements(s) == {s[j] : j \in 1..Len(s)}

\* C1: try_function_on_any invokes func on the candidates strictly left to
\* right, at most once each, and stops at the first success: when some
\* candidate succeeds it returns (c, func(c)) for the earliest succeeding
\* candidate c, every candidate before c was invoked exactly once and no
\* candidate after c is ever invoked.
C1_FirstSuccessLeftToRight ==
  InFailover =>
    LET good == GoodAt(jump_hosts)
    IN  /\ Len(invoked) <= Len(jump_hosts)
        /\ \A j \in 1..Len(invoked) : invoked[j] = j
        /\ good # {} => Len(invoked) <= Least(good)
        /\ (Finished /\ good # {}) =>
             LET c == Least(good)
             IN  /\ Len(invoked) = c
                 /\ outcome.kind = "returned"
                 /\ outcome.host = jump_hosts[c]
                 /\ cached_connection[jump_hosts[c]] # NoConnection
                 /\ call.op = "try_connect_to_any" =>
                      outcome.connection = cached_connection[jump_hosts[c]]

\* C1 witness: the first candidate failed, the second succeeded and was
\* returned, and a third that would have succeeded was never invoked.
C1_Witness ==
  /\ Finished
  /\ call.op = "try_connect_to_any"
  /\ Len(jump_hosts) = 3
  /\ GoodAt(jump_hosts) = {2, 3}
  /\ invoked = <<1, 2>>
  /\ outcome.kind = "returned"
  /\ outcome.host = jump_hosts[2]

\* C2: when func fails for every candidate of a non-empty sequence, the
\* call raises exactly the exception the last candidate raised (raised on
\* the last candidate by the last invocation, with the type and cause
\* connect() gave it), not wrapped and not an earlier candidate's.
C2_RaisesLastException ==
  (InFailover /\ Finished /\ Len(jump_hosts) > 0 /\ GoodAt(jump_hosts) = {}) =>
    /\ outcome.kind = "raised"
    /\ outcome.exc.host = jump_hosts[Len(jump_hosts)]
    /\ outcome.exc.n = Len(jump_hosts)
    /\ outcome.exc.type =
         (IF injected \in Classified THEN "ConnectionError" ELSE injected)
    /\ outcome.exc.cause =
         (IF injected \in Classified THEN injected ELSE NoCause)

\* C2 witness: two different candidates failed and the exception raised is
\* the second one's, a ZeroDivisionError.
C2_Witness ==
  /\ Finished
  /\ call.op = "try_connect_to_any"
  /\ Len(jump_hosts) >= 2
  /\ jump_hosts[1] # jump_hosts[Len(jump_hosts)]
  /\ GoodAt(jump_hosts) = {}
  /\ outcome.kind = "raised"
  /\ outcome.exc.type = "ZeroDivisionError"
  /\ outcome.exc.host = jump_hosts[Len(jump_hosts)]

\* C3: any exception func raises on a candidate, a ConnectionError or any
\* other kind, is caught and the next candidate is tried: while the loop
\* runs every invoked candidate has been passed over, and the call raises
\* only when no untried candidate remains.
C3_EveryExceptionFailsOver ==
  InFailover =>
    /\ pc = "loop" => i = Len(invoked) + 1
    /\ (Finished /\ outcome.kind = "raised") => Len(invoked) = Len(jump_hosts)

\* C3 witness: a candidate raised ZeroDivisionError and the next candidate
\* was tried and returned.
C3_Witness ==
  /\ Finished
  /\ InFailover
  /\ last_exception.type = "ZeroDivisionError"
  /\ Len(invoked) >= 2
  /\ outcome.kind = "returned"
  /\ outcome.host = jump_hosts[Len(invoked)]

\* C4: choose_from without an override, whatever order the shuffle
\* produced, returns one of the supplied candidates whose connect()
\* succeeded during the call whenever some supplied candidate can connect,
\* and fails only when none can.
C4_ChoosesReachableHost ==
  (Finished /\ call.op = "choose_from" /\ call.override = NoOverride) =>
    IF \E h \in Elements(call.hosts) : connection_func[h] = "GOOD"
    THEN /\ outcome.kind = "returned"
         /\ outcome.host \in Elements(call.hosts)
         /\ connection_func[outcome.host] = "GOOD"
         /\ result # NoConnection
         /\ cached_connection[outcome.host] = result
    ELSE outcome.kind = "raised"

\* C4 witness: one candidate that connects among two that fail, shuffled
\* into another order in which it came last, and it was returned.
C4_Witness ==
  /\ Finished
  /\ call.op = "choose_from"
  /\ call.override = NoOverride
  /\ Len(call.hosts) = 3
  /\ Cardinality(GoodAt(call.hosts)) = 1
  /\ jump_hosts # call.hosts
  /\ invoked = <<1, 2, 3>>
  /\ outcome.kind = "returned"
  /\ connection_func[outcome.host] = "GOOD"

\* A step in which connect() runs on host h: called directly, or as func
\* on the loop's current candidate.
ConnectsDirectly(h) == pc = "idle" /\ call'.op = "connect" /\ call'.self = h
ConnectsInLoop(h) == InLoop /\ jump_hosts[i] = h /\ invoked' # invoked

\* C5: once a connect() on a JumpHost has succeeded, every later connect()
\* returns the identical cached handle without invoking connection_func or
\* open(), and cached_connection never changes once set.
C5_CachedConnectionReused ==
  [][\A h \in Hosts :
       cached_connection[h] # NoConnection =>
         /\ cached_connection'[h] = cached_connection[h]
         /\ ConnectsDirectly(h) =>
              /\ outcome' = Returned(None, cached_connection[h])
              /\ factoryCalls' = 0
              /\ openCalls' = 0
         /\ ConnectsInLoop(h) =>
              /\ result' = cached_connection[h]
              /\ factoryCalls' = factoryCalls
              /\ openCalls' = openCalls]_vars

\* C5 witness: a connect() that returned the cached handle and invoked
\* neither the factory nor open().
C5_Witness ==
  /\ Finished
  /\ call.op = "connect"
  /\ outcome.kind = "returned"
  /\ outcome.connection # NoConnection
  /\ outcome.connection = cached_connection[call.self]
  /\ factoryCalls = 0
  /\ openCalls = 0

\* C6: when connection_func or open() raises a name-resolution, timeout or
\* authentication failure, connect() raises ConnectionError with that
\* exception as its cause and leaves cached_connection empty (also when
\* only open() failed); a connect() on an empty cache invokes the factory.
C6_ClassifiedFailureNotCached ==
  /\ []((Finished /\ call.op = "connect" /\ injected \in Classified) =>
          /\ outcome.kind = "raised"
          /\ outcome.exc.type = "ConnectionError"
          /\ outcome.exc.cause = injected
          /\ cached_connection[call.self] = NoConnection)
  /\ [][\A h \in Hosts :
          (ConnectsDirectly(h) /\ cached_connection[h] = NoConnection) =>
            factoryCalls' = 1]_vars

\* C6 witness: the factory returned a handle, open() timed out, connect()
\* raised ConnectionError from it and nothing is cached.
C6_Witness ==
  /\ Finished
  /\ call.op = "connect"
  /\ injected = "socket.timeout"
  /\ factoryCalls = 1
  /\ openCalls = 1
  /\ outcome.exc.type = "ConnectionError"
  /\ outcome.exc.cause = "socket.timeout"
  /\ cached_connection[call.self] = NoConnection

\* C7 as claimed: all four failure classes, the unclassified one included,
\* reach the caller of connect() / docker_client() as ConnectionError
\* carrying the original exception as its cause.
C7_EveryFailureIsConnectionError ==
  (Finished /\ call.op \in {"connect", "docker_client"} /\ injected # "none") =>
    /\ outcome.kind = "raised"
    /\ outcome.exc.type = "ConnectionError"
    /\ outcome.exc.cause = injected

\* The exceptions each accessor names in an except clause.
Named(op) == IF op = "connect" THEN Classified ELSE ClientClassified

\* C7 amended: the name-resolution, timeout and authentication failures
\* reach the caller of connect() / docker_client() as ConnectionError
\* carrying the original exception as its cause; any other exception of
\* the factory or open step reaches the caller unchanged, with its own
\* type and no ConnectionError around it, and nothing is cached.
C7_OnlyNamedFailuresAreWrapped ==
  (Finished /\ call.op \in {"connect", "docker_client"} /\ injected # "none") =>
    /\ outcome.kind = "raised"
    /\ outcome.exc.host = call.self
    /\ cached_connection[call.self] = NoConnection \/ call.op # "connect"
    /\ cached_docker_client[call.self] = NoClient \/ call.op # "docker_client"
    /\ IF injected \in Named(call.op)
       THEN outcome.exc.type = "ConnectionError" /\ outcome.exc.cause = injected
       ELSE outcome.exc.type = injected /\ outcome.exc.cause = NoCause

\* C7 witness: open() raised ZeroDivisionError and connect() let it through
\* as a ZeroDivisionError.
C7_Witness ==
  /\ Finished
  /\ call.op = "connect"
  /\ injected = "ZeroDivisionError"
  /\ openCalls = 1
  /\ outcome.kind = "raised"
  /\ outcome.exc.type = "ZeroDivisionError"

\* C8: try_function_on_any on an empty candidate sequence (directly through
\* try_connect_to_any, or through choose_from without an override) fails
\* with the no-hosts failure and never invokes func.
C8_EmptySequenceNoHosts ==
  (InFailover /\ Len(call.hosts) = 0) =>
    /\ Len(jump_hosts) = 0
    /\ invoked = <<>>
    /\ factoryCalls = 0
    /\ pc # "after"
    /\ Finished => outcome = Raised(NoHostsProvided)

\* C8 witness: choose_from() with no candidates and no override has failed
\* with "No hosts provided".
C8_Witness ==
  /\ Finished
  /\ call.op = "choose_from"
  /\ call.override = NoOverride
  /\ call.hosts = <<>>
  /\ outcome.kind = "raised"
  /\ outcome.exc.args = "No hosts provided"

\* The str s is a numeral of k: decimal digits, leading zeros allowed.
RECURSIVE Numeral(_, _)
Numeral(s, k) ==
  /\ k >= 0
  /\ Len(s) >= 1
  /\ s[Len(s)] = DigitChars[(k % 10) + 1]
  /\ IF Len(s) = 1 THEN k < 10 ELSE Numeral(SubSeq(s, 1, Len(s) - 1), k \div 10)

\* The override is the integer k or a digits-only string denoting k.
Denotes(override, k) ==
  \/ override.t = "int" /\ override.n = k
  \/ override.t = "str" /\ Numeral(override.s, k)

IndexRange == (0 - (MaxLen + 1))..99

\* C9: choose_from with an override that is the integer k or a digits-only
\* string denoting k, 1 <= k <= n, returns candidates[k-1] and checks no
\* connectivity: no factory or open() is invoked, no cache changes, also
\* when that candidate cannot connect; both forms give the same result.
C9_IndexOverrideNoCheck ==
  /\ [](\A k \in 1..Len(call.hosts) :
          (Finished /\ call.op = "choose_from" /\ Denotes(call.override, k)) =>
            /\ outcome = Returned(call.hosts[k], NoConnection)
            /\ invoked = <<>>
            /\ factoryCalls = 0
            /\ openCalls = 0)
  /\ [][(pc = "idle" /\ call'.op = "choose_from" /\ call'.override # NoOverride) =>
          /\ cached_connection' = cached_connection
          /\ cached_docker_client' = cached_docker_client
          /\ clientCalls' = 0]_vars

\* C9 witness: override "03" over three candidates returned the third
\* candidate, which cannot connect, and its cache is still empty.
C9_Witness ==
  /\ Finished
  /\ call.op = "choose_from"
  /\ call.override = StrOverride(<<"0", "3">>)
  /\ Len(call.hosts) = 3
  /\ connection_func[call.hosts[3]] = "BAD"
  /\ outcome.host = call.hosts[3]
  /\ cached_connection[call.hosts[3]] = NoConnection

\* C10: choose_from with an integer or digits-only string override k
\* outside 1..n, k = 0 and negative integers included, fails with an
\* index-out-of-bounds error and returns no Endpoint.
C10_OutOfRangeIndexFails ==
  \A k \in IndexRange :
    (/\ Finished
     /\ call.op = "choose_from"
     /\ Denotes(call.override, k)
     /\ k \notin 1..Len(call.hosts)) =>
      outcome = Raised(IndexError)

\* The str s is not made of decimal digits only (the empty str included).
NonNumeric(s) == ~ \E k \in 0..99 : Numeral(s, k)

\* C11: choose_from with a non-numeric string override s returns a newly
\* constructed Endpoint with identifier s and both caches empty, never one of
\* the candidate objects, also when a candidate carries the identifier s; no
\* connection is attempted on the new Endpoint or on any candidate.
C11_HostnameOverrideIsNewEndpoint ==
  /\ [](\A s \in OverrideStrings :
          (/\ Finished
           /\ call.op = "choose_from"
           /\ call.override = StrOverride(s)
           /\ NonNumeric(s)) =>
            /\ outcome.kind = "returned"
            /\ outcome.host = None
            /\ Len(outcome.created) = 1
            /\ outcome.created[1].host = s
            /\ outcome.created[1].cached_connection = NoConnection
            /\ outcome.created[1].cached_docker_client = NoClient
            /\ outcome.connection = NoConnection
            /\ invoked = << >>
            /\ factoryCalls = 0
            /\ openCalls = 0)
  /\ [][(pc = "idle" /\ call'.op = "choose_from" /\ call'.override.t = "str") =>
          /\ cached_connection' = cached_connection
          /\ cached_docker_client' = cached_docker_client
          /\ clientCalls' = 0]_vars

\* C11 witness: the override is the identifier of the first candidate, and what
\* came back is a new object with that identifier, not the candidate.
C11_Witness ==
  /\ Finished
  /\ call.op = "choose_from"
  /\ call.override.t = "str"
  /\ Len(call.hosts) >= 1
  /\ call.override.s = HostName(call.hosts[1])
  /\ outcome.host = None
  /\ Len(outcome.created) = 1
  /\ outcome.created[1].host = HostName(call.hosts[1])

\* A step of a call that runs the failover loop, its first step included.
FailoverStep ==
  \/ pc = "idle" /\ pc' = "loop"
  \/ pc \in {"loop", "after"} /\ InFailover

\* t holds the elements of s, each as often as s does.
IsPermutation(s, t) ==
  /\ Len(s) = Len(t)
  /\ \A h \in Hosts :
       Cardinality({j \in 1..Len(s) : s[j] = h}) =
         Cardinality({j \in 1..Len(t) : t[j] = h})

\* C21: after try_connect_to_any, or choose_from without an override, has
\* returned the winner c with connection r, c.cached_connection is r and every
\* candidate tried before c has an empty cached_connection; no step of the
\* call changes the cache of a candidate other than the one being tried (so a
\* candidate not tried is unchanged), and the caller's sequence of candidates
\* keeps its elements and their order, the loop running over it or over a
\* shuffled copy.
C21_OnlyTheWinnerIsCached ==
  /\ []((Finished /\ InFailover /\ outcome.kind = "returned") =>
          LET c == Len(invoked)
          IN  /\ c \in 1..Len(jump_hosts)
              /\ invoked = [j \in 1..c |-> j]
              /\ outcome.host = jump_hosts[c]
              /\ result # NoConnection
              /\ cached_connection[jump_hosts[c]] = result
              /\ call.op = "try_connect_to_any" => outcome.connection = result
              /\ \A j \in 1..(c - 1) :
                   cached_connection[jump_hosts[j]] = NoConnection)
  /\ [][FailoverStep =>
          /\ \A h \in Hosts :
               cached_connection'[h] # cached_connection[h] =>
                 /\ InLoop
                 /\ h = jump_hosts[i]
                 /\ cached_connection[h] = NoConnection
                 /\ cached_connection'[h] = result'
                 /\ pc' = "after"
          /\ cached_docker_client' = cached_docker_client
          /\ pc # "idle" => (call' = call /\ jump_hosts' = jump_hosts)
          /\ pc = "idle" =>
               /\ IsPermutation(call'.hosts, jump_hosts')
               /\ call'.op = "try_connect_to_any" => jump_hosts' = call'.hosts]_vars

\* C21 witness: choose_from over three candidates with empty caches, shuffled
\* into another order; two of them failed, each after its factory was invoked,
\* the third is the winner and the only one with a cached connection, and the
\* caller's sequence is as it was passed.
C21_Witness ==
  /\ Finished
  /\ call.op = "choose_from"
  /\ call.override = NoOverride
  /\ Len(call.hosts) = 3
  /\ jump_hosts # call.hosts
  /\ invoked = <<1, 2, 3>>
  /\ factoryCalls = 3
  /\ outcome.host = jump_hosts[3]
  /\ cached_connection[jump_hosts[3]] = result
  /\ result # NoConnection
  /\ \A h \in Hosts : h # jump_hosts[3] => cached_connection[h] = NoConnection

\* ------------------------------------------------- run_in_parallel claims
ParallelFinished == rpc = "done"

Distinct(s) == \A j, k \in 1..Len(s) : s[j] = s[k] => j = k

OperandSet == {operands[j] : j \in 1..Len(operands)}

\* Every invocation of operator_func has ended, each with its own outcome.
AllInvoked ==
  \A j \in 1..Len(operands) :
    future[j] \in {Value(j), Raises(j)}

Failed == {j \in 1..Len(operands) : future[j].kind = "exception"}

\* C12: with return_exceptions true and a non-empty collection of distinct
\* operands, whatever the interleaving, run_in_parallel does not raise and
\* returns a mapping whose keys are exactly the operands, each mapped to what
\* operator_func returned for it or to the exception object it raised for it.
C12_CollectModeMapsEveryOperand ==
  (/\ ParallelFinished
   /\ return_exceptions
   /\ Len(operands) >= 1
   /\ Distinct(operands)) =>
     /\ returned.kind = "returned"
     /\ DOMAIN returned.mapping = OperandSet
     /\ AllInvoked
     /\ \A j \in 1..Len(operands) :
          returned.mapping[operands[j]] = future[j]

\* C12 witness: three distinct operands, the second failed and the others
\* returned, and the mapping holds the exception under the second operand.
C12_Witness ==
  /\ ParallelFinished
  /\ return_exceptions
  /\ Len(operands) = 3
  /\ Distinct(operands)
  /\ returned.kind = "returned"
  /\ returned.mapping[operands[1]] = Value(1)
  /\ returned.mapping[operands[2]] = Raises(2)
  /\ returned.mapping[operands[3]] = Value(3)

\* C13: with return_exceptions false, whenever operator_func raises for at
\* least one operand run_in_parallel raises an exception raised by one of the
\* failing invocations and returns no mapping; when no invocation raises it
\* returns the full mapping.
C13_FailFastRaisesOrReturnsAll ==
  (/\ ParallelFinished
   /\ ~return_exceptions) =>
     IF Failed # {}
     THEN /\ returned.kind = "raised"
          /\ returned.mapping = << >>
          /\ \E j \in Failed : returned.exc = future[j]
     ELSE /\ returned.kind = "returned"
          /\ DOMAIN returned.mapping = OperandSet
          /\ \A j \in 1..Len(operands) :
               returned.mapping[operands[j]] \in
                 {future[k] : k \in {l \in 1..Len(operands) :
                                       operands[l] = operands[j]}}

\* C14: run_in_parallel neither returns nor raises while an invocation of
\* operator_func is still executing or waiting for a thread: in collect mode
\* every coroutine has completed, and in fail-fast mode every other invocation
\* has ended by the time the failure reaches the caller.
C14_NoTaskOutlivesTheCall ==
  ParallelFinished =>
    /\ \A j \in DOMAIN task : task[j] \in {"finished", "resumed"}
    /\ work_queue = << >>
    /\ Threads = {}
    /\ return_exceptions => \A j \in DOMAIN task : task[j] = "resumed"
    /\ returned.kind = "raised" /\ returned.exc # ValueError =>
         \A j \in DOMAIN task : future[j] \in {Value(j), Raises(j)}

\* C14 witness: in fail-fast mode the failure of one invocation has been
\* raised out of gather while another invocation still executes and a third
\* has not been picked up: the call is held in the executor's shutdown.
C14_Witness ==
  /\ rpc = "exit"
  /\ ~return_exceptions
  /\ outer.state = "exception"
  /\ \E j \in DOMAIN task : task[j] = "running"
  /\ \E j \in DOMAIN task : task[j] = "queued"

\* The last position at which the operand v occurs.
LastOccurrence(v) ==
  CHOOSE j \in 1..Len(operands) :
    /\ operands[j] = v
    /\ \A k \in 1..Len(operands) : operands[k] = v => k <= j

\* C15: when the collection holds duplicate values, operator_func is still
\* invoked once per occurrence, the returned mapping has exactly one entry per
\* distinct value, and the entry is the outcome of the last occurrence in input
\* order, in whatever order the invocations complete.
C15_DuplicatesLastOccurrenceWins ==
  (/\ ParallelFinished
   /\ ~Distinct(operands)
   /\ returned.kind = "returned") =>
     /\ AllInvoked
     /\ DOMAIN returned.mapping = OperandSet
     /\ \A v \in OperandSet :
          returned.mapping[v] = future[LastOccurrence(v)]

\* C15 witness: the collection is 1, 2, 1, the third invocation raised and
\* ended first, the first returned and ended last, and the entry of 1 is the
\* exception of the third.
C15_Witness ==
  /\ ParallelFinished
  /\ operands = <<1, 2, 1>>
  /\ return_exceptions
  /\ completed = <<3, 2, 1>>
  /\ future[1] = Value(1)
  /\ future[3] = Raises(3)
  /\ returned.kind = "returned"
  /\ returned.mapping[1] = Raises(3)

\* A caller's docker_client() on host h is about to run.
AsksForClient(h) ==
  /\ pc = "idle"
  /\ call'.op = "docker_client"
  /\ call'.self = h

\* C16: docker_client() keeps the caching and error contract of connect() on
\* docker_client_func and cached_docker_client: a success is cached and every
\* later call returns it without invoking the factory; a name-resolution,
\* timeout or authentication failure raises ConnectionError from it and caches
\* nothing; neither accessor reads or changes the cache of the other.
C16_DockerClientSameContract ==
  /\ []((Finished /\ call.op = "docker_client") =>
          /\ outcome.kind = "returned" =>
               /\ outcome.client # NoClient
               /\ outcome.client = cached_docker_client[call.self]
          /\ injected \in ClientClassified =>
               /\ outcome.kind = "raised"
               /\ outcome.exc.type = "ConnectionError"
               /\ outcome.exc.cause = injected
               /\ cached_docker_client[call.self] = NoClient
          /\ factoryCalls = 0
          /\ openCalls = 0)
  /\ []((Finished /\ call.op = "connect") => clientCalls = 0)
  /\ [][\A h \in Hosts :
          /\ cached_docker_client[h] # NoClient =>
               /\ cached_docker_client'[h] = cached_docker_client[h]
               /\ AsksForClient(h) =>
                    /\ outcome' = ReturnedClient(cached_docker_client[h])
                    /\ clientCalls' = 0
          /\ (AsksForClient(h) /\ cached_docker_client[h] = NoClient) =>
               clientCalls' = 1
          /\ (ConnectsDirectly(h) /\ cached_connection[h] = NoConnection) =>
               factoryCalls' = 1
          /\ AsksForClient(h) => cached_connection' = cached_connection
          /\ ConnectsDirectly(h) =>
               cached_docker_client' = cached_docker_client]_vars

\* C16 witness: on a host whose connection is cached and whose client is not,
\* docker_client() invoked docker_client_func, which timed out: ConnectionError
\* from the TimeoutError, no client cached, the connection still cached.
C16_Witness ==
  /\ Finished
  /\ call.op = "docker_client"
  /\ injected = "TimeoutError"
  /\ clientCalls = 1
  /\ outcome.exc.type = "ConnectionError"
  /\ outcome.exc.cause = "TimeoutError"
  /\ cached_docker_client[call.self] = NoClient
  /\ cached_connection[call.self] # NoConnection

\* The earliest position, in input order, whose invocation raised.
FirstFailedInInput == CHOOSE j \in Failed : \A k \in Failed : j <= k

\* The position whose invocation was the first to end by raising.
FirstFailedInTime ==
  completed[CHOOSE l \in 1..Len(completed) :
              /\ completed[l] \in Failed
              /\ \A m \in 1..(l - 1) : completed[m] \notin Failed]

\* C18 as claimed: in fail-fast mode, when two or more invocations fail, the
\* exception raised to the caller is that of the failing operand that comes
\* first in input order, whatever the order in which the invocations end.
C18_FirstFailureInInputOrder ==
  (/\ ParallelFinished
   /\ ~return_exceptions
   /\ Cardinality(Failed) >= 2) =>
     /\ returned.kind = "raised"
     /\ returned.exc = future[FirstFailedInInput]

\* C18 amended: in fail-fast mode, when two or more invocations fail, the
\* exception raised to the caller is that of the invocation that was the
\* first to end by raising (its coroutine is the first the loop resumes
\* with an exception), wherever its operand stands in the input.
C18_FirstFailureInCompletionOrder ==
  (/\ ParallelFinished
   /\ ~return_exceptions
   /\ Cardinality(Failed) >= 2) =>
     /\ returned.kind = "raised"
     /\ returned.exc = future[FirstFailedInTime]

\* C18 witness: the first and the second invocation both raised, the second
\* ended first, and the caller got the exception of the second.
C18_Witness ==
  /\ ParallelFinished
  /\ ~return_exceptions
  /\ Len(operands) = 3
  /\ future[1] = Raises(1)
  /\ future[2] = Raises(2)
  /\ completed[1] = 2
  /\ returned = RaisedFrom(Raises(2))

\* C20: run_in_parallel starts one work item per operand on a pool with one
\* worker slot per operand, so every queued work item has an idle thread to
\* take it and all invocations can run at once: a callable that blocks until
\* the work of every other operand has started does not deadlock, and the
\* call ends whenever every invocation ends once all are running.
C20_OneSlotPerOperandTerminates ==
  /\ [](/\ num_threads <= Len(operands)
        /\ Len(work_queue) <= num_threads - Cardinality(Threads))
  /\ (rpc = "start") ~> (rpc = "done")

\* C20 witness: the callable is a barrier, and the invocations of all three
\* operands are executing at the same time on three threads.
C20_Witness ==
  /\ operator_func = "barrier"
  /\ Len(operands) = 3
  /\ num_threads = 3
  /\ \A j \in 1..3 : task[j] = "running"

\* C22: run_in_parallel called with an empty collection returns an empty
\* mapping, without raising and without invoking operator_func, with
\* return_exceptions true and with return_exceptions false.
C22_EmptyInputEmptyMapping ==
  (ParallelFinished /\ Len(operands) = 0) =>
    /\ returned = ReturnedMapping(<< >>)
    /\ completed = << >>
    /\ num_threads = 0

\* ------------------------------------------------------------ thread claims
\* Thread t has returned from connect() on host h with a handle.
Holds(t, h) ==
  /\ thread[t].pc = "done"
  /\ thread[t].self = h
  /\ thread[t].ret.kind = "returned"

\* C19: two first-time connect() calls on one JumpHost that overlap can both
\* pass the cache test, so that connection_func is invoked more than once,
\* the callers get different handles and each write of cached_connection
\* replaces what is there; while the calls on each host are serialised no
\* such state is reached: connection_func of a host that connects is invoked
\* at most once and every caller gets the cached handle.
C19_ConcurrentConnectCanRace ==
  /\ [](\A h \in Hosts : \A t, u \in ThreadIds :
          (/\ Holds(t, h)
           /\ Holds(u, h)
           /\ thread[t].ret.connection # thread[u].ret.connection) =>
             /\ ~serial
             /\ made[h] >= 2)
  /\ [](serial =>
          \A h \in Hosts :
            /\ connection_func[h] = "GOOD" => made[h] <= 1
            /\ \A t \in ThreadIds :
                 Holds(t, h) => thread[t].ret.connection = cached_connection[h])
  /\ [][\A t \in ThreadIds :
          (thread[t].pc = "opened" /\ thread'[t].pc = "done") =>
            /\ cached_connection'[thread[t].self] = thread[t].connection
            /\ thread'[t].ret = Returned(None, thread[t].connection)]_vars

\* C19 witness: both threads hold a handle of the same host, the handles
\* differ, connection_func was invoked twice, and the cache holds the handle
\* of the second thread, not the one the first thread was given.
C19_Witness ==
  \E h \in Hosts :
    /\ Holds(1, h)
    /\ Holds(2, h)
    /\ thread[1].ret.connection # thread[2].ret.connection
    /\ made[h] = 2
    /\ cached_connection[h] = thread[2].ret.connection
    /\ cached_connection[h] # thread[1].ret.connection
    /\ ~serial

\* --------------------------------------------------------- LocalHost claims
OnLocalHost == Finished /\ call.self = LocalRef

\* C17: after any sequence of connect() and docker_client() calls on a
\* LocalHost no call has failed with ConnectionError, neither connection_func
\* nor docker_client_func has been invoked, and both caches are still empty:
\* every call that returns hands out a newly constructed object.
C17_LocalHostNeverCaches ==
  /\ [](/\ local_host.cached_connection = NoConnection
        /\ local_host.cached_docker_client = NoClient
        /\ OnLocalHost =>
             /\ outcome.exc.type # "ConnectionError"
             /\ factoryCalls = 0
             /\ openCalls = 0
             /\ clientCalls = 0
             /\ call.op = "LocalHost.connect" =>
                  /\ outcome.kind = "returned"
                  /\ outcome.connection = [host |-> LocalRef, n |-> constructed]
             /\ (call.op = "LocalHost.docker_client" /\ outcome.kind = "returned") =>
                  outcome.client = [docker_host |-> LocalRef, n |-> constructed])
  /\ [][(pc = "idle" /\ call'.self = LocalRef /\ outcome'.kind = "returned") =>
          constructed' = constructed + 1]_vars

\* C17 witness: the third connect() on the LocalHost returned the third
\* Context constructed, and the caches are empty as before.
C17_Witness ==
  /\ OnLocalHost
  /\ call.op = "LocalHost.connect"
  /\ constructed = 3
  /\ outcome.connection = [host |-> LocalRef, n |-> 3]
  /\ local_host.cached_connection = NoConnection
  /\ local_host.cached_docker_client = NoClient

====
